---- MODULE Spec2Model ----
(***************************************************************************)
(* lr_calc: scanner -> Pratt parser -> tree-walking evaluator.             *)
(*                                                                         *)
(* A text is a sequence of characters; a character is a one-element string *)
(* ("1", "+", " "), and three characters outside ASCII are written by      *)
(* their code point: "U+00E9" (e with acute accent: alphabetic, 2 bytes in *)
(* UTF-8), "U+00B2" (superscript two: numeric, 2 bytes) and "U+20AC" (the  *)
(* euro sign: neither, 3 bytes).  Sequences are indexed from 1; byte       *)
(* offsets and token positions are counted from 0 as in the source.        *)
(***************************************************************************)
EXTENDS Integers, Sequences, FiniteSets, TLC

VARIABLES text, phase, tokens, iter_index, read, stack, ret, root, result, value

vars == <<text, phase, tokens, iter_index, read, stack, ret, root, result, value>>

(***************************************************************************)
(* Bounds of the model.                                                    *)
(***************************************************************************)
MaxTextLen == 2
MaxExprLen == 4
MaxOps == 2
IntCap == 1000000000
MaxScans == 2

(***************************************************************************)
(* Characters.                                                             *)
(***************************************************************************)
AsciiDigits == {"0", "1", "2", "3", "4", "5", "6", "7", "8", "9"}

\* the ASCII letters
Letters ==
  {"a", "b", "c", "d", "e", "f", "g", "h", "i", "j", "k", "l", "m",
   "n", "o", "p", "q", "r", "s", "t", "u", "v", "w", "x", "y", "z",
   "A", "B", "C", "D", "E", "F", "G", "H", "I", "J", "K", "L", "M",
   "N", "O", "P", "Q", "R", "S", "T", "U", "V", "W", "X", "Y", "Z"}

DigitVal(c) ==
  CASE c = "0" -> 0 [] c = "1" -> 1 [] c = "2" -> 2 [] c = "3" -> 3
    [] c = "4" -> 4 [] c = "5" -> 5 [] c = "6" -> 6 [] c = "7" -> 7
    [] c = "8" -> 8 [] c = "9" -> 9

\* char::is_numeric: the Unicode classes Nd, Nl and No
IsNumeric(c) == c \in AsciiDigits \/ c = "U+00B2"

\* char::is_alphabetic: the ASCII letters, and of the other characters of the
\* texts U+00E9
IsAlphabetic(c) == c \in Letters \/ c = "U+00E9"

\* the length of the character's UTF-8 encoding
Utf8Len(c) ==
  CASE c \in {"U+00E9", "U+00B2"} -> 2
    [] c = "U+20AC" -> 3
    [] OTHER -> 1

RECURSIVE ByteLen(_)
ByteLen(s) == IF s = <<>> THEN 0 ELSE Utf8Len(Head(s)) + ByteLen(Tail(s))

\* the byte offset char_indices gives the i-th character of e
ByteOffset(e, i) == ByteLen(SubSeq(e, 1, i - 1))

(***************************************************************************)
(* f64 values.  A value is finite and exact (k = "fin": n / d, d a power   *)
(* of two, in lowest terms), negative zero ("nz"), an infinity ("inf",     *)
(* "ninf"), not a number ("nan"), or a value the model does not determine  *)
(* ("unk": a rounded result, or one beyond IntCap, an overflow to an       *)
(* infinity included).                                                     *)
(***************************************************************************)
Fin(n, d) == [k |-> "fin", n |-> n, d |-> d]
Special(kind) == [k |-> kind, n |-> 0, d |-> 1]
Zero == Fin(0, 1)
NegZero == Special("nz")
Inf == Special("inf")
NegInf == Special("ninf")
NaN == Special("nan")
Unknown == Special("unk")
IntVal(n) == Fin(n, 1)

Abs(x) == IF x < 0 THEN 0 - x ELSE x

RECURSIVE Gcd(_, _)
Gcd(a, b) == IF b = 0 THEN a ELSE Gcd(b, a % b)

RECURSIVE IsPow2(_)
IsPow2(d) == IF d = 1 THEN TRUE ELSE IF d % 2 = 1 THEN FALSE ELSE IsPow2(d \div 2)

\* x * y stays within the integers the model computes with
Fits(x, y) == x = 0 \/ y = 0 \/ Abs(x) <= IntCap \div Abs(y)

\* the f64 nearest to the rational n / d (d > 0): exact when n / d is a dyadic
\* rational within IntCap; neg tells the sign of a zero result
Rational(n, d, neg) ==
  IF n = 0 THEN (IF neg THEN NegZero ELSE Zero)
  ELSE LET g == Gcd(Abs(n), d)
           rn == n \div g
           rd == d \div g
       IN IF Abs(rn) <= IntCap /\ rd <= IntCap /\ IsPow2(rd) THEN Fin(rn, rd) ELSE Unknown

IsNeg(v) == v.k \in {"nz", "ninf"} \/ (v.k = "fin" /\ v.n < 0)
IsZero(v) == v.k = "nz" \/ (v.k = "fin" /\ v.n = 0)
IsInfinite(v) == v.k \in {"inf", "ninf"}
SignedInf(neg) == IF neg THEN NegInf ELSE Inf
SignedZero(neg) == IF neg THEN NegZero ELSE Zero

\* -x
VNeg(v) ==
  CASE v.k = "fin" -> IF v.n = 0 THEN NegZero ELSE Fin(0 - v.n, v.d)
    [] v.k = "nz" -> Zero
    [] v.k = "inf" -> NegInf
    [] v.k = "ninf" -> Inf
    [] OTHER -> v

\* f64::abs
VAbs(v) ==
  CASE v.k = "fin" -> Fin(Abs(v.n), v.d)
    [] v.k = "nz" -> Zero
    [] v.k = "ninf" -> Inf
    [] OTHER -> v

\* a + b
VAdd(a, b) ==
  IF a.k = "nan" \/ b.k = "nan" THEN NaN
  ELSE IF a.k = "unk" \/ b.k = "unk" THEN Unknown
  ELSE IF IsInfinite(a) /\ IsInfinite(b) THEN (IF a.k = b.k THEN a ELSE NaN)
  ELSE IF IsInfinite(a) THEN a
  ELSE IF IsInfinite(b) THEN b
  ELSE IF IsZero(a) /\ IsZero(b) THEN SignedZero(a.k = "nz" /\ b.k = "nz")
  ELSE IF IsZero(a) THEN b
  ELSE IF IsZero(b) THEN a
  ELSE IF Fits(a.n, b.d) /\ Fits(b.n, a.d) /\ Fits(a.d, b.d)
       THEN Rational(a.n * b.d + b.n * a.d, a.d * b.d, FALSE)
       ELSE Unknown

\* a - b
VSub(a, b) == VAdd(a, VNeg(b))

\* a * b
VMul(a, b) ==
  IF a.k = "nan" \/ b.k = "nan" THEN NaN
  ELSE IF a.k = "unk" \/ b.k = "unk" THEN Unknown
  ELSE IF (IsInfinite(a) /\ IsZero(b)) \/ (IsZero(a) /\ IsInfinite(b)) THEN NaN
  ELSE IF IsInfinite(a) \/ IsInfinite(b) THEN SignedInf(IsNeg(a) # IsNeg(b))
  ELSE IF IsZero(a) \/ IsZero(b) THEN SignedZero(IsNeg(a) # IsNeg(b))
  ELSE IF Fits(a.n, b.n) /\ Fits(a.d, b.d)
       THEN Rational(a.n * b.n, a.d * b.d, FALSE)
       ELSE Unknown

\* a / b
VDiv(a, b) ==
  IF a.k = "nan" \/ b.k = "nan" THEN NaN
  ELSE IF a.k = "unk" \/ b.k = "unk" THEN Unknown
  ELSE IF IsInfinite(a) /\ IsInfinite(b) THEN NaN
  ELSE IF IsZero(a) /\ IsZero(b) THEN NaN
  ELSE IF IsInfinite(a) THEN SignedInf(IsNeg(a) # IsNeg(b))
  ELSE IF IsInfinite(b) THEN SignedZero(IsNeg(a) # IsNeg(b))
  ELSE IF IsZero(b) THEN SignedInf(IsNeg(a) # IsNeg(b))
  ELSE IF IsZero(a) THEN SignedZero(IsNeg(a) # IsNeg(b))
  ELSE IF Fits(a.n, b.d) /\ Fits(a.d, b.n)
       THEN Rational((IF b.n < 0 THEN 0 - 1 ELSE 1) * a.n * b.d, a.d * Abs(b.n), FALSE)
       ELSE Unknown

\* a % b: the remainder of the truncated division, with the sign of a
VRem(a, b) ==
  IF a.k = "nan" \/ b.k = "nan" THEN NaN
  ELSE IF a.k = "unk" \/ b.k = "unk" THEN Unknown
  ELSE IF IsInfinite(a) \/ IsZero(b) THEN NaN
  ELSE IF IsInfinite(b) THEN a
  ELSE IF IsZero(a) THEN a
  ELSE IF Fits(a.n, b.d) /\ Fits(b.n, a.d) /\ Fits(a.d, b.d)
       THEN LET x == Abs(a.n) * b.d
                y == Abs(b.n) * a.d
                r == x % y
            IN Rational((IF a.n < 0 THEN 0 - 1 ELSE 1) * r, a.d * b.d, a.n < 0)
       ELSE Unknown

(***************************************************************************)
(* evaluator.rs                                                            *)
(***************************************************************************)
\* n as u64 for a value that is neither infinite nor undetermined: truncates
\* toward zero, saturates at 0, and takes NaN to 0
AsU64(v) == IF v.k = "fin" /\ v.n > 0 THEN v.n \div v.d ELSE 0

\* the largest n whose factorial is a finite f64 (171! exceeds f64::MAX)
FactFinite == 170

\* the loop of factorial from i on, f being the product so far
RECURSIVE FactorialLoop(_, _, _)
FactorialLoop(i, n, f) ==
  IF i > n THEN IntVal(f)
  ELSE IF Fits(f, i) THEN FactorialLoop(i + 1, n, f * i)
  ELSE Unknown

\* factorial with the range 2..n in place of 2..=n
factorial_exclusive(v) ==
  CASE v.k = "unk" -> Unknown
    [] v.k = "inf" -> Inf
    [] OTHER ->
         LET n == AsU64(v)
         IN IF n > FactFinite + 1 THEN Inf ELSE FactorialLoop(2, n - 1, 1)

factorial(v) ==
  CASE v.k = "unk" -> Unknown
    [] v.k = "inf" -> Inf
    [] OTHER ->
         LET n == AsU64(v)
         IN IF n > FactFinite THEN Inf ELSE FactorialLoop(2, n, 1)

\* the number of iterations of the loop of factorial, 2..=(n as u64): none for
\* n below 2, n - 1 otherwise; an infinite n is u64::MAX as u64, and IntCap
\* stands for that count as for every count from IntCap on; -1 for a value
\* the model does not determine
FactorialIterations(v) ==
  CASE v.k = "unk" -> 0 - 1
    [] v.k = "inf" -> IntCap
    [] OTHER -> LET n == AsU64(v) IN IF n >= 2 THEN n - 1 ELSE 0

(***************************************************************************)
(* scanner.rs                                                              *)
(***************************************************************************)
NoStr == <<>>

\* Token::new
Token(t, pos) == [t |-> t, pos |-> pos, num |-> Zero, str |-> NoStr]
NumberToken(v, pos) == [t |-> "Number", pos |-> pos, num |-> v, str |-> NoStr]
StrToken(s, pos) == [t |-> "Str", pos |-> pos, num |-> Zero, str |-> s]

\* the integer a string of ASCII digits denotes, or -1 when it exceeds IntCap
RECURSIVE DigitsValue(_, _)
DigitsValue(s, acc) ==
  IF s = <<>> THEN acc
  ELSE IF acc = 0 - 1 \/ acc > (IntCap - 9) \div 10 THEN 0 - 1
  ELSE DigitsValue(Tail(s), 10 * acc + DigitVal(Head(s)))

\* 10^e, or -1 when it exceeds IntCap
RECURSIVE Pow10(_)
Pow10(e) ==
  IF e = 0 THEN 1
  ELSE IF e > 18 THEN 0 - 1
  ELSE LET p == Pow10(e - 1)
       IN IF p = 0 - 1 \/ p > IntCap \div 10 THEN 0 - 1 ELSE 10 * p

AllDigits(s) == \A i \in 1..Len(s) : s[i] \in AsciiDigits
FirstIndex(s, c) ==
  IF \E i \in 1..Len(s) : s[i] = c
  THEN CHOOSE i \in 1..Len(s) : s[i] = c /\ \A j \in 1..(i - 1) : s[j] # c
  ELSE 0

\* str::parse::<f64> on a string of digits, '.', 'E' and other numeric
\* characters: ( Digit+ | Digit+ '.' Digit* | Digit* '.' Digit+ ) ( 'E' Digit+ )?
\* [ok |-> FALSE] is the Err the caller panics on.
ParseF64(s) ==
  LET ePos == FirstIndex(s, "E")
      mant == IF ePos = 0 THEN s ELSE SubSeq(s, 1, ePos - 1)
      expo == IF ePos = 0 THEN <<>> ELSE SubSeq(s, ePos + 1, Len(s))
      dot == FirstIndex(mant, ".")
      ip == IF dot = 0 THEN mant ELSE SubSeq(mant, 1, dot - 1)
      fp == IF dot = 0 THEN <<>> ELSE SubSeq(mant, dot + 1, Len(mant))
      wellFormed == /\ AllDigits(ip) /\ AllDigits(fp)
                    /\ Len(ip) + Len(fp) >= 1
                    /\ ePos # 0 => (Len(expo) >= 1 /\ AllDigits(expo))
      digits == ip \o fp
      m == DigitsValue(digits, 0)
      x == DigitsValue(expo, 0)
      e == x - Len(fp)
      p == Pow10(Abs(e))
  IN IF ~wellFormed THEN [ok |-> FALSE, v |-> Zero]
     ELSE IF m = 0 THEN [ok |-> TRUE, v |-> Zero]
     ELSE IF m = 0 - 1 \/ x = 0 - 1 \/ p = 0 - 1 THEN [ok |-> TRUE, v |-> Unknown]
     ELSE IF e >= 0 THEN [ok |-> TRUE, v |-> IF Fits(m, p) THEN IntVal(m * p) ELSE Unknown]
     ELSE [ok |-> TRUE, v |-> Rational(m, p, FALSE)]

NoPanic == "none"
WrongFormatNumber == "Wrong format number!"
NotCharBoundary == "byte index is not a char boundary"

NumberChar(c) == IsNumeric(c) \/ c = "." \/ c = "E"

\* the loop of take_number: the first index from j on whose character does not
\* continue the literal, or Len(e) + 1
RECURSIVE NumberEnd(_, _)
NumberEnd(e, j) == IF j > Len(e) \/ ~NumberChar(e[j]) THEN j ELSE NumberEnd(e, j + 1)

\* the loop of take_str
RECURSIVE StrEnd(_, _)
StrEnd(e, j) == IF j > Len(e) \/ ~IsAlphabetic(e[j]) THEN j ELSE StrEnd(e, j + 1)

\* Scanner::take_number, called after the character at index first was read:
\* the token, the index of the next character to read, and the panic if any.
\* &self.expr[start..(end + 1)] panics unless the last character taken is one
\* byte long.
take_number(e, first) ==
  LET j == NumberEnd(e, first + 1)
      pos == ByteOffset(e, first)
  IN IF Utf8Len(e[j - 1]) # 1
     THEN [tok |-> Token("None", pos), next |-> j, panic |-> NotCharBoundary]
     ELSE LET r == ParseF64(SubSeq(e, first, j - 1))
          IN IF r.ok
             THEN [tok |-> NumberToken(r.v, pos), next |-> j, panic |-> NoPanic]
             ELSE [tok |-> Token("None", pos), next |-> j, panic |-> WrongFormatNumber]

\* Scanner::take_str
take_str(e, first) ==
  LET j == StrEnd(e, first + 1)
      pos == ByteOffset(e, first)
  IN IF Utf8Len(e[j - 1]) # 1
     THEN [tok |-> Token("None", pos), next |-> j, panic |-> NotCharBoundary]
     ELSE [tok |-> StrToken(SubSeq(e, first, j - 1), pos), next |-> j, panic |-> NoPanic]

SymbolToken(c) ==
  CASE c = "+" -> "Plus"
    [] c = "-" -> "Minus"
    [] c = "/" -> "Division"
    [] c = "%" -> "Modulo"
    [] c = "^" -> "Power"
    [] c = "!" -> "Factorial"
    [] c = "," -> "Comma"
    [] c = "(" -> "Lparen"
    [] c = ")" -> "Rparen"
    [] c = "[" -> "Lparen"
    [] c = "]" -> "Rparen"
    [] c = "=" -> "Equals"
    [] c = "|" -> "Bar"
    [] OTHER -> "None"

\* Scanner::get_next_token with the iterator at the character of index i
get_next_token(e, i) ==
  IF i > Len(e) THEN [tok |-> Token("End", 0), next |-> i, panic |-> NoPanic]
  ELSE LET c == e[i]
           pos == ByteOffset(e, i)
       IN IF SymbolToken(c) # "None"
          THEN [tok |-> Token(SymbolToken(c), pos), next |-> i + 1, panic |-> NoPanic]
          ELSE IF c = "*" THEN
               (IF i + 1 <= Len(e) /\ e[i + 1] = "*"
                THEN [tok |-> Token("Power", pos), next |-> i + 2, panic |-> NoPanic]
                ELSE [tok |-> Token("Multiplication", pos), next |-> i + 1, panic |-> NoPanic])
          ELSE IF IsNumeric(c) \/ c = "." THEN take_number(e, i)
          ELSE IF IsAlphabetic(c) THEN take_str(e, i)
          ELSE [tok |-> Token("None", pos), next |-> i + 1, panic |-> NoPanic]

\* Scanner::scan from the character of index i on, toks being the tokens pushed
\* so far: the tokens, and the panic that ended the scan if any
RECURSIVE scan(_, _, _)
scan(e, i, toks) ==
  LET r == get_next_token(e, i)
  IN IF r.panic # NoPanic THEN [tokens |-> toks, panic |-> r.panic]
     ELSE IF r.tok.t = "End" THEN [tokens |-> Append(toks, Token("End", 0)), panic |-> NoPanic]
     ELSE IF r.tok.t # "None" THEN scan(e, r.next, Append(toks, r.tok))
     ELSE scan(e, r.next, toks)

\* Scanner::next counting the reads past the end as well
ScannerNext_counting(toks, idx) ==
  IF idx >= Len(toks) THEN [tok |-> Token("End", 0), idx |-> idx + 1]
  ELSE [tok |-> toks[idx + 1], idx |-> idx + 1]

\* Scanner::next: the token returned and the cursor after the call
ScannerNext(toks, idx) ==
  IF idx >= Len(toks) THEN [tok |-> Token("End", 0), idx |-> idx]
  ELSE [tok |-> toks[idx + 1], idx |-> idx + 1]

\* Scanner::peek
ScannerPeek(toks, idx) ==
  IF idx >= Len(toks) THEN Token("End", 0) ELSE toks[idx + 1]

(***************************************************************************)
(* ast.rs.  An Option is a sequence of at most one element: None is <<>>   *)
(* and Some(x) is <<x>>.                                                   *)
(***************************************************************************)
None == <<>>
Some(x) == <<x>>

\* ast::TokenType
AstToken(t) == [t |-> t, num |-> Zero]
AstNumber(v) == [t |-> "Number", num |-> v]
AstPanic == AstToken("panic")

\* Node::new and Node::new_ptr
Node(token, left, right) == [token |-> token, left |-> left, right |-> right]
\* new_ptr leaving the right child out
new_ptr_without_right(token, left, right) == Some(Node(token, left, None))

new_ptr(token, left, right) == Some(Node(token, left, right))

\* infix_binding_power with one level for all five operators
infix_binding_power_one_level(t) ==
  CASE t \in {"Plus", "Minus", "Multiplication", "Division", "Modulo"} -> Some([l |-> 1, r |-> 2])
    [] OTHER -> None

\* infix_binding_power with the left and right powers exchanged
infix_binding_power_exchanged(t) ==
  CASE t \in {"Plus", "Minus"} -> Some([l |-> 2, r |-> 1])
    [] t \in {"Multiplication", "Division", "Modulo"} -> Some([l |-> 4, r |-> 3])
    [] OTHER -> None

infix_binding_power(t) ==
  CASE t \in {"Plus", "Minus"} -> Some([l |-> 1, r |-> 2])
    [] t \in {"Multiplication", "Division", "Modulo"} -> Some([l |-> 3, r |-> 4])
    [] OTHER -> None

\* prefix_binding_power with the power of a sub-expression
prefix_binding_power_zero(t) ==
  CASE t \in {"Plus", "Minus"} -> Some([r |-> 0])
    [] OTHER -> None

prefix_binding_power(t) ==
  CASE t \in {"Plus", "Minus"} -> Some([r |-> 5])
    [] OTHER -> None

\* postfix_binding_power below the prefix operators
postfix_binding_power_low(t) ==
  CASE t = "Factorial" -> Some([l |-> 4])
    [] OTHER -> None

postfix_binding_power(t) ==
  CASE t = "Factorial" -> Some([l |-> 7])
    [] OTHER -> None

is_operator(t) ==
  t \in {"Minus", "Modulo", "Plus", "Multiplication", "Division", "Factorial"}

\* scanner_token_to_ast_token without the arm of Modulo
scanner_token_to_ast_token_no_modulo(token) ==
  CASE token.t = "Number" -> AstNumber(token.num)
    [] token.t = "Plus" -> AstToken("Plus")
    [] token.t = "Minus" -> AstToken("Minus")
    [] token.t = "Multiplication" -> AstToken("Multiply")
    [] token.t = "Division" -> AstToken("Divide")
    [] token.t = "Factorial" -> AstToken("Factorial")
    [] token.t = "Bar" -> AstToken("Bar")
    [] OTHER -> AstToken("panic")

\* AstPanic is the panic of the catch-all arm
scanner_token_to_ast_token(token) ==
  CASE token.t = "Number" -> AstNumber(token.num)
    [] token.t = "Plus" -> AstToken("Plus")
    [] token.t = "Minus" -> AstToken("Minus")
    [] token.t = "Multiplication" -> AstToken("Multiply")
    [] token.t = "Division" -> AstToken("Divide")
    [] token.t = "Factorial" -> AstToken("Factorial")
    [] token.t = "Bar" -> AstToken("Bar")
    [] token.t = "Modulo" -> AstToken("Modulo")
    [] OTHER -> AstPanic

scanner_token_to_prefix_token(token) ==
  CASE token.t = "Plus" -> AstToken("PrefixPlus")
    [] token.t = "Minus" -> AstToken("PrefixMinus")
    [] OTHER -> AstPanic

\* An error message: the format string and what fills its places, each a token
\* ({:?} of a token or of its type, {} of its position)
NoTok == Token("None", 0 - 1)
ErrMsg(fmt, a, b) == [fmt |-> fmt, a |-> a, b |-> b]
NoErr == ErrMsg("", NoTok, NoTok)

OperandExpected == "Operator {:?} at pos {} expects an operand, but gets End!"
EmptyExpression == "Empty expression!"
UnknownError == "Unkown error! Prev token {:?} at pos {}, last token {:?} at pos {}"
RParenNotFound == "Expected RParen is not found! LParen pos = {}"
BarNotFound == "Expected Bar is not found! First Bar  pos = {}"
UnknownPrefix == "Unknown prefix operator {:?} at pos {}!"
UnknownTokenLhs == "Unknown token! {:?}"
UnknownTokenLoop == "Unkown token {:?} at pos {}!"

\* Result<NodePtr, ErrMsg>; NoRet when no call has just returned
Ok(node) == [st |-> "ok", node |-> node, err |-> NoErr]
Err(msg) == [st |-> "err", node |-> None, err |-> msg]
NoRet == [st |-> "none", node |-> None, err |-> NoErr]

\* log_error reporting the position of the token read
log_error_pos_of_token(prev_token, token) ==
  IF is_operator(prev_token.t) /\ token.t = "End"
  THEN Err(ErrMsg(OperandExpected, [prev_token EXCEPT !.pos = token.pos], NoTok))
  ELSE IF prev_token.t = "None" /\ token.t = "End"
  THEN Err(ErrMsg(EmptyExpression, NoTok, NoTok))
  ELSE Err(ErrMsg(UnknownError, prev_token, token))

log_error(prev_token, token) ==
  IF is_operator(prev_token.t) /\ token.t = "End"
  THEN Err(ErrMsg(OperandExpected, prev_token, NoTok))
  ELSE IF prev_token.t = "None" /\ token.t = "End"
  THEN Err(ErrMsg(EmptyExpression, NoTok, NoTok))
  ELSE Err(ErrMsg(UnknownError, prev_token, token))

\* recursion
RECURSIVE recursion(_)
recursion(node) ==
  IF node = None THEN Zero
  ELSE LET ptr == node[1]
           t == ptr.token.t
       IN CASE t = "Modulo" -> VRem(recursion(ptr.left), recursion(ptr.right))
            [] t = "PrefixMinus" -> VNeg(recursion(ptr.left))
            [] t = "PrefixPlus" -> recursion(ptr.left)
            [] t = "Plus" -> VAdd(recursion(ptr.left), recursion(ptr.right))
            [] t = "Minus" -> VSub(recursion(ptr.left), recursion(ptr.right))
            [] t = "Factorial" -> factorial(recursion(ptr.left))
            [] t = "Bar" -> VAbs(recursion(ptr.left))
            [] t = "Multiply" -> VMul(recursion(ptr.left), recursion(ptr.right))
            [] t = "Divide" -> VDiv(recursion(ptr.left), recursion(ptr.right))
            [] t = "Number" -> ptr.token.num

\* the iterations of the loops of factorial in one call of recursion, counted
\* as FactorialIterations counts them: recursion calls itself on both children
\* in the arms Modulo, Plus, Minus, Multiply and Divide, on the left child
\* only in the arms PrefixMinus, PrefixPlus, Factorial and Bar, and on no
\* child in the arm Number
RECURSIVE RecursionIterations(_)
RecursionIterations(node) ==
  IF node = None THEN 0
  ELSE LET ptr == node[1]
           t == ptr.token.t
       IN CASE t \in {"Modulo", "Plus", "Minus", "Multiply", "Divide"} ->
                 LET l == RecursionIterations(ptr.left)
                     r == RecursionIterations(ptr.right)
                 IN IF l < 0 \/ r < 0 THEN 0 - 1
                    ELSE IF l >= IntCap - r THEN IntCap ELSE l + r
            [] t \in {"PrefixMinus", "PrefixPlus", "Bar"} -> RecursionIterations(ptr.left)
            [] t = "Factorial" ->
                 LET l == RecursionIterations(ptr.left)
                     own == FactorialIterations(recursion(ptr.left))
                 IN IF l < 0 \/ own < 0 THEN 0 - 1
                    ELSE IF l >= IntCap - own THEN IntCap ELSE l + own
            [] OTHER -> 0

(***************************************************************************)
(* The parser as a machine.  A frame is one call of parse_expr together    *)
(* with the call of parse_lhs it makes first; pc tells where the call      *)
(* stands: "lhs" (parse_lhs is about to read its token), "lparen", "bar",  *)
(* "prefix" (parse_lhs waits for the sub-expression it called parse_expr   *)
(* for), "loop" (parse_expr is at the head of its loop) and "infix"        *)
(* (parse_expr waits for the right operand).  ret holds the Result a call  *)
(* has just returned, until its caller takes it.                           *)
(***************************************************************************)
Frame(min_bp, prev_token) ==
  [pc |-> "lhs", min_bp |-> min_bp, prev_token |-> prev_token,
   token |-> NoTok, token_type |-> AstToken("none"), lhs |-> None]

Top == stack[Len(stack)]
Pop == SubSeq(stack, 1, Len(stack) - 1)
SetTop(f) == [stack EXCEPT ![Len(stack)] = f]
Call(f, min_bp, prev_token) == Append(SetTop(f), Frame(min_bp, prev_token))

\* Result<(), ErrMsg> of build, or the panic that ended the process
NoResult == [st |-> "none", err |-> NoErr, panic |-> NoPanic]
BuildOk == [st |-> "ok", err |-> NoErr, panic |-> NoPanic]
BuildErr(msg) == [st |-> "err", err |-> msg, panic |-> NoPanic]
Panicked(p) == [st |-> "panic", err |-> NoErr, panic |-> p]
CantConvert == "CAN'T CONVERT THIS TOKEN!"
UnknownPrefixToken == "Unkown prefix token!"

\* the process aborts
Abort(p) ==
  /\ phase' = "aborted"
  /\ result' = Panicked(p)
  /\ stack' = <<>>
  /\ ret' = NoRet

\* a call returns r to its caller
Return(r) ==
  /\ stack' = Pop
  /\ ret' = r
  /\ UNCHANGED <<phase, result>>

\* evaluate, lines 38-39: Scanner::new and Scanner::scan
Scan ==
  /\ phase = "new"
  /\ LET r == scan(text, 1, <<>>)
     IN IF r.panic # NoPanic
        THEN /\ phase' = "aborted"
             /\ result' = Panicked(r.panic)
             /\ tokens' = r.tokens
        ELSE /\ phase' = "scanned"
             /\ tokens' = r.tokens
             /\ UNCHANGED result
  /\ UNCHANGED <<text, read, iter_index, stack, ret, root, value>>

\* Ast::new and the call of parse_expr in build
Build ==
  /\ phase = "scanned"
  /\ phase' = "parsing"
  /\ stack' = <<Frame(0, Token("None", 0))>>
  /\ UNCHANGED <<text, read, tokens, iter_index, ret, root, result, value>>

\* parse_lhs up to its first call or its return
ParseLhs ==
  /\ phase = "parsing" /\ stack # <<>> /\ ret.st = "none" /\ Top.pc = "lhs"
  /\ LET n == ScannerNext(tokens, iter_index)
         token == n.tok
     IN /\ iter_index' = n.idx
        /\ CASE token.t = "Number" ->
                  /\ stack' = SetTop([Top EXCEPT !.pc = "loop", !.token = token,
                                         !.lhs = new_ptr(AstNumber(token.num), None, None)])
                  /\ UNCHANGED <<ret, phase, result>>
             [] token.t = "Lparen" ->
                  /\ stack' = Call([Top EXCEPT !.pc = "lparen", !.token = token], 0, token)
                  /\ UNCHANGED <<ret, phase, result>>
             [] token.t = "Bar" ->
                  /\ stack' = Call([Top EXCEPT !.pc = "bar", !.token = token], 0, token)
                  /\ UNCHANGED <<ret, phase, result>>
             [] token.t = "End" -> Return(log_error(Top.prev_token, token))
             [] OTHER ->
                  IF is_operator(token.t)
                  THEN IF prefix_binding_power(token.t) # None
                       THEN /\ stack' = Call([Top EXCEPT !.pc = "prefix", !.token = token],
                                             prefix_binding_power(token.t)[1].r, token)
                            /\ UNCHANGED <<ret, phase, result>>
                       ELSE Return(Err(ErrMsg(UnknownPrefix, token, NoTok)))
                  ELSE Return(Err(ErrMsg(UnknownTokenLhs, token, NoTok)))
  /\ UNCHANGED <<text, read, tokens, root, value>>

\* CloseParen naming the position of the token it read
CloseParen_pos_of_next ==
  /\ phase = "parsing" /\ stack # <<>> /\ ret.st = "ok" /\ Top.pc = "lparen"
  /\ LET n == ScannerNext(tokens, iter_index)
     IN /\ iter_index' = n.idx
        /\ IF n.tok.t # "Rparen"
           THEN Return(Err(ErrMsg(RParenNotFound, n.tok, NoTok)))
           ELSE /\ stack' = SetTop([Top EXCEPT !.pc = "loop", !.lhs = ret.node])
                /\ ret' = NoRet
                /\ UNCHANGED <<phase, result>>
  /\ UNCHANGED <<text, read, tokens, root, value>>

\* parse_lhs, lines 160-165: the sub-expression of a parenthesis has been parsed
CloseParen ==
  /\ phase = "parsing" /\ stack # <<>> /\ ret.st = "ok" /\ Top.pc = "lparen"
  /\ LET n == ScannerNext(tokens, iter_index)
     IN /\ iter_index' = n.idx
        /\ IF n.tok.t # "Rparen"
           THEN Return(Err(ErrMsg(RParenNotFound, Top.token, NoTok)))
           ELSE /\ stack' = SetTop([Top EXCEPT !.pc = "loop", !.lhs = ret.node])
                /\ ret' = NoRet
                /\ UNCHANGED <<phase, result>>
  /\ UNCHANGED <<text, read, tokens, root, value>>

\* CloseBar leaving the closing bar unread
CloseBar_unread ==
  /\ phase = "parsing" /\ stack # <<>> /\ ret.st = "ok" /\ Top.pc = "bar"
  /\ LET lhs == new_ptr(AstToken("Bar"), ret.node, None)
         n == ScannerPeek(tokens, iter_index)
     IN IF n.t # "Bar"
        THEN Return(Err(ErrMsg(BarNotFound, Top.token, NoTok)))
        ELSE /\ stack' = SetTop([Top EXCEPT !.pc = "loop", !.lhs = lhs])
             /\ ret' = NoRet
             /\ UNCHANGED <<phase, result>>
  /\ UNCHANGED <<text, read, tokens, iter_index, root, value>>

\* parse_lhs, lines 168-175: the sub-expression between bars has been parsed
CloseBar ==
  /\ phase = "parsing" /\ stack # <<>> /\ ret.st = "ok" /\ Top.pc = "bar"
  /\ LET lhs == new_ptr(AstToken("Bar"), ret.node, None)
         n == ScannerNext(tokens, iter_index)
     IN /\ iter_index' = n.idx
        /\ IF n.tok.t # "Bar"
           THEN Return(Err(ErrMsg(BarNotFound, Top.token, NoTok)))
           ELSE /\ stack' = SetTop([Top EXCEPT !.pc = "loop", !.lhs = lhs])
                /\ ret' = NoRet
                /\ UNCHANGED <<phase, result>>
  /\ UNCHANGED <<text, read, tokens, root, value>>

\* parse_lhs, lines 182-186: the operand of a prefix operator has been parsed
WrapPrefix ==
  /\ phase = "parsing" /\ stack # <<>> /\ ret.st = "ok" /\ Top.pc = "prefix"
  /\ LET token_type == scanner_token_to_prefix_token(Top.token)
     IN IF token_type = AstPanic
        THEN Abort(UnknownPrefixToken)
        ELSE /\ stack' = SetTop([Top EXCEPT !.pc = "loop",
                                    !.lhs = new_ptr(token_type, ret.node, None)])
             /\ ret' = NoRet
             /\ UNCHANGED <<phase, result>>
  /\ UNCHANGED <<text, read, tokens, iter_index, root, value>>

\* one iteration of the loop of parse_expr, up to its call, its continue or
\* its return
ParseExprLoop ==
  /\ phase = "parsing" /\ stack # <<>> /\ ret.st = "none" /\ Top.pc = "loop"
  /\ LET token == ScannerPeek(tokens, iter_index)
         post == postfix_binding_power(token.t)
         infix == infix_binding_power(token.t)
         consumed == ScannerNext(tokens, iter_index).idx
     IN IF ~(is_operator(token.t) \/ token.t = "Rparen" \/ token.t = "Bar")
        THEN /\ IF token.t = "End"
                THEN Return(Ok(Top.lhs))
                ELSE Return(Err(ErrMsg(UnknownTokenLoop, token, NoTok)))
             /\ UNCHANGED iter_index
        ELSE IF post # None
        THEN IF post[1].l < Top.min_bp
             THEN Return(Ok(Top.lhs)) /\ UNCHANGED iter_index
             ELSE LET token_type == scanner_token_to_ast_token(token)
                  IN /\ iter_index' = consumed
                     /\ IF token_type = AstPanic
                        THEN Abort(CantConvert)
                        ELSE /\ stack' = SetTop([Top EXCEPT !.token = token,
                                                    !.lhs = new_ptr(token_type, Top.lhs, None)])
                             /\ UNCHANGED <<ret, phase, result>>
        ELSE IF infix # None
        THEN IF infix[1].l < Top.min_bp
             THEN Return(Ok(Top.lhs)) /\ UNCHANGED iter_index
             ELSE LET token_type == scanner_token_to_ast_token(token)
                  IN /\ iter_index' = consumed
                     /\ IF token_type = AstPanic
                        THEN Abort(CantConvert)
                        ELSE /\ stack' = Call([Top EXCEPT !.pc = "infix", !.token = token,
                                                  !.token_type = token_type],
                                              infix[1].r, token)
                             /\ UNCHANGED <<ret, phase, result>>
        ELSE Return(Ok(Top.lhs)) /\ UNCHANGED iter_index
  /\ UNCHANGED <<text, read, tokens, root, value>>

\* parse_expr, line 233: the right operand of an infix operator has been parsed
InfixCombine ==
  /\ phase = "parsing" /\ stack # <<>> /\ ret.st = "ok" /\ Top.pc = "infix"
  /\ stack' = SetTop([Top EXCEPT !.pc = "loop",
                         !.lhs = new_ptr(Top.token_type, Top.lhs, ret.node)])
  /\ ret' = NoRet
  /\ UNCHANGED <<text, read, phase, tokens, iter_index, root, result, value>>

\* a caller that has an lhs returning it with Ok when its callee returned Err
PropagateErr_keeping_lhs ==
  /\ phase = "parsing" /\ stack # <<>> /\ ret.st = "err"
  /\ stack' = Pop
  /\ ret' = IF Top.lhs # None THEN Ok(Top.lhs) ELSE ret
  /\ UNCHANGED <<text, read, phase, tokens, iter_index, root, result, value>>

\* the ? of lines 158, 168, 181 and 233 and the match of line 200: a call whose
\* callee returned Err returns that Err
PropagateErr ==
  /\ phase = "parsing" /\ stack # <<>> /\ ret.st = "err"
  /\ stack' = Pop
  /\ UNCHANGED <<text, read, phase, tokens, iter_index, ret, root, result, value>>

\* build, lines 244-248: the outermost parse_expr has returned
BuildReturn ==
  /\ phase = "parsing" /\ stack = <<>> /\ ret.st # "none"
  /\ phase' = "built"
  /\ IF ret.st = "ok"
     THEN root' = ret.node /\ result' = BuildOk
     ELSE result' = BuildErr(ret.err) /\ UNCHANGED root
  /\ ret' = NoRet
  /\ UNCHANGED <<text, read, tokens, iter_index, stack, value>>

\* evaluate, lines 42-46
Evaluate ==
  /\ phase = "built"
  /\ phase' = "evaluated"
  /\ value' = IF result.st = "ok" THEN recursion(root) ELSE value
  /\ UNCHANGED <<text, read, tokens, iter_index, stack, ret, root, result>>

(***************************************************************************)
(* The scanner read by a caller of its own: next and peek are public, and  *)
(* a caller may call them on a scanner in any order and any number of      *)
(* times, before scan (the token vector is empty then) and after it.       *)
(* read is the call made last and the token it returned.                   *)
(***************************************************************************)
NoRead == [op |-> "none", tok |-> NoTok]

\* Scanner::next called on the scanner
CallNext ==
  /\ phase \in {"new", "scanned"}
  /\ LET n == ScannerNext(tokens, iter_index)
     IN /\ iter_index' = n.idx
        /\ read' = [op |-> "next", tok |-> n.tok]
  /\ UNCHANGED <<text, phase, tokens, stack, ret, root, result, value>>

\* the number of End tokens at the end of the token vector: the calls of scan
\* that have returned
RECURSIVE Scans(_)
Scans(toks) ==
  IF toks = <<>> \/ toks[Len(toks)].t # "End" THEN 0
  ELSE 1 + Scans(SubSeq(toks, 1, Len(toks) - 1))

\* Scanner::scan called on a scanner already scanned: the iterator is at the
\* end of the text, get_next_token returns End, and scan pushes one more End
ScanAgain ==
  /\ phase = "scanned"
  /\ Scans(tokens) < MaxScans
  /\ LET r == get_next_token(text, Len(text) + 1)
     IN /\ r.tok.t = "End"
        /\ tokens' = Append(tokens, Token("End", 0))
  /\ UNCHANGED <<text, read, phase, iter_index, stack, ret, root, result, value>>

\* Scanner::peek called on the scanner
CallPeek ==
  /\ phase \in {"new", "scanned"}
  /\ read' = [op |-> "peek", tok |-> ScannerPeek(tokens, iter_index)]
  /\ UNCHANGED <<text, phase, tokens, iter_index, stack, ret, root, result, value>>

(***************************************************************************)
(* The inputs: the texts evaluate is called with.                          *)
(***************************************************************************)
\* the texts of ast_tests and evaluator_tests
ParserTestTexts ==
  { <<"1", " ", "+", " ", "2">>,
    <<"1">>,
    <<"-", "1">>,
    <<"1", " ", "+", " ", "(", "2", " ", "+", " ", "3", ")">>,
    <<"3", "!">>,
    <<"-", "1", " ", "+", " ", "2">>,
    <<"1", " ", "+", " ", "2", " ", "-", " ", "4">>,
    <<"2", " ", "*", " ", "3", " ", "+", " ", "4", " ", "*", " ", "5">>,
    <<"1", " ", "+", " ">>,
    <<"1", " ", "+", " ", "2", " ", "-", " ">>,
    <<"+">>,
    <<>>,
    <<"2", " ", "/", " ", "2", " ", "*", " ", "3", " ", "+", " ", "4", " ", "*", " ", "5">>,
    <<"2", " ", "+", " ", "6", " ", "/", " ", "2", " ", "*", " ", "3", " ", "+", " ", "4", " ", "*", " ", "5">>,
    <<"(", "1", " ", "+", " ", "2", ")", " ", "*", " ", "3">>,
    <<"(", "1", " ", "+", " ", "2", "!", ")", " ", "/", " ", "3">>,
    <<"(", "1", " ", "*", " ", "2", ")", " ", "*", " ", "(", "5", " ", "+", " ", "1", ")">>,
    <<"(", "(", "2", " ", "+", " ", "3", ")", " ", "*", " ", "2", ")", " ", "*", " ", "(", "5", " ", "+", " ", "1", ")">>,
    <<"-", "(", "1", " ", "+", " ", "3", ")">>,
    <<"(", "2", " ", "+", " ", "1", ")", "!">>,
    <<"(", "1", " ", "+", " ", "3", ")", "!", " ", "*", " ", "2">>,
    <<"(", "(", "3", " ", "-", " ", "2", ")", " ", "*", " ", "2", ")", "!", " ", "*", " ", "1", ".", "0">>,
    <<"-", "3", "!">>,
    <<"-", "3", "!", " ", "/", " ", "3">>,
    <<"-", "3", " ", "*", " ", "1", " ", "*", " ", "-", "1">>,
    <<"3", "!", " ", "*", " ", "3">>,
    <<"2", " ", "+", " ", "3", "!", " ", "*", " ", "3">>,
    <<"1", "0", " ", "-", " ", "2", "!", " ", "+", " ", "3", "!">>,
    <<"3", "!", " ", "*", " ", "3", "!">>,
    <<"2", " ", "+", " ", "-", "1">>,
    <<"2", " ", "+", " ", "-", "1", " ", "/", " ", "2", ".">>,
    <<"+", "2", " ", "+", " ", "+", "3">>,
    <<"-", "1", " ", "*", " ", "8">>,
    <<"-", "3", " ", "+", " ", "1", " ", "*", " ", "3", " ", "/", " ", "3">>,
    <<"|", "-", "3", "|">>,
    <<"|", "-", "3", " ", "*", " ", "1", " ", "*", " ", "-", "1", "|">>,
    <<"|", "-", "2", "|", " ", "+", " ", "2">>,
    <<"2", " ", "/", " ", "(", "|", "-", "2", "|", " ", "+", " ", "2", ")">>,
    <<"|", "(", "4", " ", "-", " ", "6", ")", "|", " ", "*", " ", "2">>,
    <<"4", " ", "%", " ", "2">>,
    <<"4", " ", "%", " ", "3">>,
    <<"(", "4", " ", "+", " ", "2", ")", " ", "%", " ", "3">>,
    <<"(", "5", " ", "+", " ", "2", ")", " ", "%", " ", "9">> }

\* the texts of scanner_tests
ScannerTestTexts ==
  { <<>>,
    <<"+">>,
    <<"-">>,
    <<"/">>,
    <<"*">>,
    <<"1">>,
    <<"1", "0", "3">>,
    <<"1", "0", "3", " ", "+", " ", "1">>,
    <<"+", "1", "0", "3", "+", "1">>,
    <<"3", "2", "1", ".", "2", "3", " ", "*", " ", "1", "0", ".", "2", "3">>,
    <<"+", "2", " ", "-", " ", "3", " ", "/", " ", "6", " ", "*", " ", "7">>,
    <<"(", "1", "2", "3", ".", "2", "0", " ", "+", " ", "1", ".", "2", "1", ")", " ", "*", " ", "4", "0">>,
    <<"m", "a", "x", "(", ")">>,
    <<"m", "a", "x", "(", "1", ",", " ", "2", ")">>,
    <<"m", "a", "x", "(", "m", "i", "n", "(", "3", ",", " ", "2", ")", ",", " ", "s", "o", "m", "e", "F", "u", "n", "c", "(", "4", ")", ")">>,
    <<"1", "2", "3", ".", "4", "5", ".", "3">> }

\* further texts: nested and unbalanced bars and brackets, the operators the
\* parser does not handle, and the special values of f64 arithmetic
FurtherTexts ==
  { <<"|", "|", "1", "|", "|">>,
    <<"|", "1", " ", "+", " ", "|", "2", "|", "|">>,
    <<"1", " ", ")">>,
    <<"1", " ", "|", " ", "2">>,
    <<"3", "!", "!", "!", "!">>,
    <<"1", " ", "/", " ", "0">>,
    <<"(", "(", "1", ")">>,
    <<"(", "1", "|">>,
    <<"|", "1", ")">>,
    <<"[", "1", " ", "+", " ", "2", "]", " ", "*", " ", "3">>,
    <<"2", " ", "*", "*", " ", "3">>,
    <<"1", " ", "=", " ", "1">>,
    <<"a", " ", "+", " ", "1">>,
    <<"-", "7", " ", "%", " ", "2">>,
    <<"0", " ", "*", " ", "-", "1">>,
    <<"1", " ", "/", " ", "-", "0">>,
    <<"(", "0", " ", "-", " ", "1", ")", "!">>,
    <<"1", ".", "5", "!">>,
    <<"|", "1", "|", " ", "+", " ", "|", "2", "|">>,
    <<"|", "1", " ", "*", " ", "|", "2", "|", " ", "*", " ", "3", "|">>,
    <<"-", "(", "2", " ", "+", " ", "1", ")", "!">>,
    <<"-", "|", "3", "|", "!">>,
    <<"1", " ", "+", " ", "2", " ", "!">>,
    <<"(", "1", " ", "/", " ", "0", ")", "!">>,
    <<"2", " ", "+", " ", "(", "1", " ", "/", " ", "0", ")", "!">> }

\* one character of every kind get_next_token tells apart
ScanChars ==
  {"+", "-", "/", "%", "^", "!", ",", "(", ")", "[", "]", "=", "|", "*",
   "1", ".", "E", "a", " ", "U+00E9", "U+00B2", "U+20AC"}

\* the characters of the expressions the parser handles
ExprChars == {"3", "-", "*", "!", "(", ")", "|"}

InfixChars == {"+", "-", "*", "/", "%"}

SeqsUpTo(S, n) == UNION {[1..k -> S] : k \in 0..n}

\* every text of at most MaxTextLen characters
ShortTexts == SeqsUpTo(ScanChars, MaxTextLen)

\* every expression text of at most MaxExprLen characters
ExprTexts == SeqsUpTo(ExprChars, MaxExprLen)

\* the i-th operand of a chain: 2, 3, 4, 5, 2, ...
OperandChar(i) ==
  CASE i % 4 = 1 -> "2" [] i % 4 = 2 -> "3" [] i % 4 = 3 -> "4" [] OTHER -> "5"

Operand(i, shape) ==
  CASE shape = "neg" -> <<"-", OperandChar(i)>>
    [] shape = "fact" -> <<OperandChar(i), "!">>
    [] OTHER -> <<OperandChar(i)>>

\* operand 1, ops[1], operand 2, ..., ops[n], operand n + 1
RECURSIVE ChainText(_, _, _)
ChainText(ops, shapes, n) ==
  IF n = 0 THEN Operand(1, shapes[1])
  ELSE ChainText(ops, shapes, n - 1) \o <<ops[n]>> \o Operand(n + 1, shapes[n + 1])

\* every chain of at most MaxOps infix operators whose operands are a number,
\* a negated number or the factorial of a number
ChainTexts ==
  UNION { { ChainText(ops, shapes, n) :
              ops \in [1..n -> InfixChars],
              shapes \in [1..(n + 1) -> {"num", "neg", "fact"}] } : n \in 0..MaxOps }

\* a text with the character c put before its i-th character
Insert(t, i, c) == SubSeq(t, 1, i - 1) \o <<c>> \o SubSeq(t, i, Len(t))

InsertBases == {<<"1", "+", "2">>, <<"(", "1", ")">>, <<"|", "1", "|">>, <<"-", "1", "!">>}

\* the texts of InsertBases with one more character, of any kind, at any place
InsertTexts ==
  { Insert(t, i, c) : t \in InsertBases, i \in 1..4, c \in ScanChars }

Inputs ==
  ParserTestTexts \cup ScannerTestTexts \cup FurtherTexts \cup ShortTexts
    \cup ExprTexts \cup ChainTexts \cup InsertTexts

\* evaluate is called with a text: Scanner::new and Ast::new
Init ==
  /\ text \in Inputs
  /\ phase = "new"
  /\ tokens = <<>>
  /\ iter_index = 0
  /\ read = NoRead
  /\ stack = <<>>
  /\ ret = NoRet
  /\ root = None
  /\ result = NoResult
  /\ value = Zero

Next ==
  \/ Scan
  \/ Build
  \/ ParseLhs
  \/ CloseParen
  \/ CloseBar
  \/ WrapPrefix
  \/ ParseExprLoop
  \/ InfixCombine
  \/ PropagateErr
  \/ BuildReturn
  \/ Evaluate

Spec == Init /\ [][Next]_vars

\* a scanner, scanned or not, and the calls of next and peek on it
ScannerCalls ==
  \/ Scan
  \/ ScanAgain
  \/ CallNext
  \/ CallPeek

ScannerSpec == Init /\ [][ScannerCalls]_vars

(***************************************************************************)
(* What the properties are stated with.                                    *)
(***************************************************************************)
Done == phase \in {"built", "evaluated"}
Succeeded == Done /\ result.st = "ok"

\* every node of a tree
RECURSIVE SubNodes(_)
SubNodes(ptr) ==
  IF ptr = None THEN {}
  ELSE {ptr[1]} \cup SubNodes(ptr[1].left) \cup SubNodes(ptr[1].right)

\* the kind of a child, "absent" for None
KindOf(ptr) == IF ptr = None THEN "absent" ELSE ptr[1].token.t

AddKinds == {"Plus", "Minus"}
MulKinds == {"Multiply", "Divide", "Modulo"}
InfixKinds == AddKinds \cup MulKinds
PrefixKinds == {"PrefixPlus", "PrefixMinus"}
SameLevel(k1, k2) ==
  (k1 \in AddKinds /\ k2 \in AddKinds) \/ (k1 \in MulKinds /\ k2 \in MulKinds)

\* the scanner's name of the operator a node stands for
ScannerKind(k) ==
  CASE k = "Multiply" -> "Multiplication"
    [] k = "Divide" -> "Division"
    [] k = "PrefixPlus" -> "Plus"
    [] k = "PrefixMinus" -> "Minus"
    [] OTHER -> k

Item(t, num) == [t |-> t, num |-> num]

\* the tokens a tree is written with, brackets left out, from left to right
RECURSIVE InOrder(_)
InOrder(ptr) ==
  IF ptr = None THEN <<>>
  ELSE LET n == ptr[1]
           k == n.token.t
           op == <<Item(ScannerKind(k), Zero)>>
       IN CASE k = "Number" -> <<Item("Number", n.token.num)>>
            [] k \in InfixKinds -> InOrder(n.left) \o op \o InOrder(n.right)
            [] k \in PrefixKinds -> op \o InOrder(n.left)
            [] k = "Factorial" -> InOrder(n.left) \o op
            [] k = "Bar" -> op \o InOrder(n.left) \o op
            [] OTHER -> <<Item("?", Zero)>>

\* the tokens read so far, brackets left out
RECURSIVE Unbracketed(_)
Unbracketed(toks) ==
  IF toks = <<>> THEN <<>>
  ELSE IF Head(toks).t \in {"Lparen", "Rparen"} THEN Unbracketed(Tail(toks))
  ELSE <<Item(Head(toks).t, Head(toks).num)>> \o Unbracketed(Tail(toks))

Consumed == SubSeq(tokens, 1, iter_index)
LastConsumed == tokens[iter_index]

\* the scanned sequence is number, infix operator, number, ..., number, End
IsInfixChain(toks) ==
  /\ Len(toks) >= 2 /\ Len(toks) % 2 = 0
  /\ \A i \in 1..(Len(toks) - 1) :
       IF i % 2 = 1 THEN toks[i].t = "Number" ELSE infix_binding_power(toks[i].t) # None

NoBrackets(toks) == \A i \in 1..Len(toks) : toks[i].t \notin {"Lparen", "Rparen"}

Leaf(n) == new_ptr(AstNumber(IntVal(n)), None, None)
Binary(k, l, r) == new_ptr(AstToken(k), l, r)
Unary(k, l) == new_ptr(AstToken(k), l, None)

Text_2x3p4x5 == <<"2", " ", "*", " ", "3", " ", "+", " ", "4", " ", "*", " ", "5">>
Tree_2x3p4x5 ==
  Binary("Plus", Binary("Multiply", Leaf(2), Leaf(3)), Binary("Multiply", Leaf(4), Leaf(5)))

\* a chain of numbers and infix operators builds the tree that is written with
\* the chain's tokens and in which no * / % node has a + or - node as a child
PrecedenceOfChains ==
  (Done /\ IsInfixChain(tokens)) =>
     /\ result.st = "ok"
     /\ InOrder(root) = Unbracketed(SubSeq(tokens, 1, Len(tokens) - 1))
     /\ \A n \in SubNodes(root) :
          n.token.t \in MulKinds =>
             (KindOf(n.left) \notin AddKinds /\ KindOf(n.right) \notin AddKinds)

\* C1 as stated: precedence of * / % over + and -, and '2 * 3 + 4 * 5' builds
\* Plus(Multiply(2,3), Multiply(4,5)) and evaluates to 23
C1_PrecedenceAsStated ==
  /\ PrecedenceOfChains
  /\ (text = Text_2x3p4x5 /\ phase = "evaluated") =>
        (root = Tree_2x3p4x5 /\ value = IntVal(23))

\* C1, amended: in the tree of a chain of numbers and infix operators * / and %
\* group their operands before any neighbouring + or - does; '2 * 3 + 4 * 5'
\* builds Plus(Multiply(2,3), Multiply(4,5)) and evaluates to 26
C1_Precedence ==
  /\ PrecedenceOfChains
  /\ (text = Text_2x3p4x5 /\ phase = "evaluated") =>
        (root = Tree_2x3p4x5 /\ value = IntVal(26))

C1_Witness ==
  /\ text = Text_2x3p4x5 /\ phase = "evaluated"
  /\ root = Tree_2x3p4x5 /\ value = IntVal(26)

Text_1p2m4 == <<"1", " ", "+", " ", "2", " ", "-", " ", "4">>
Tree_1p2m4 == Binary("Minus", Binary("Plus", Leaf(1), Leaf(2)), Leaf(4))

\* C2: in the tree of a chain of numbers and infix operators the right child of
\* an infix node is never an infix node of the same level; 'a o1 b o2 c' with o1
\* and o2 of one level builds o2(o1(a, b), c); '1 + 2 - 4' builds
\* Minus(Plus(1,2), 4) and evaluates to -1
C2_LeftAssociativity ==
  /\ (Done /\ IsInfixChain(tokens)) =>
        /\ result.st = "ok"
        /\ \A n \in SubNodes(root) :
             n.token.t \in InfixKinds => ~SameLevel(n.token.t, KindOf(n.right))
        /\ (Len(tokens) = 6 /\ infix_binding_power(tokens[2].t) = infix_binding_power(tokens[4].t)) =>
              root = new_ptr(scanner_token_to_ast_token(tokens[4]),
                             new_ptr(scanner_token_to_ast_token(tokens[2]),
                                     new_ptr(AstNumber(tokens[1].num), None, None),
                                     new_ptr(AstNumber(tokens[3].num), None, None)),
                             new_ptr(AstNumber(tokens[5].num), None, None))
  /\ (text = Text_1p2m4 /\ phase = "evaluated") =>
        (root = Tree_1p2m4 /\ value = IntVal(0 - 1))

C2_Witness ==
  /\ text = Text_1p2m4 /\ phase = "evaluated"
  /\ root = Tree_1p2m4 /\ value = IntVal(0 - 1)

Parsing == phase = "parsing" /\ stack # <<>>
Peeked == ScannerPeek(tokens, iter_index)

\* parse_expr is at the head of its loop and the next token is '!'
FactorialNext == Parsing /\ ret.st = "none" /\ Top.pc = "loop" /\ Peeked.t = "Factorial"

Text_m3f == <<"-", "3", "!">>
Text_2p3fx3 == <<"2", " ", "+", " ", "3", "!", " ", "*", " ", "3">>
Text_g2p1f == <<"(", "2", " ", "+", " ", "1", ")", "!">>

\* C3: '!' is never left to an enclosing call (no call returns Ok in front of
\* a '!'), and it wraps the operand to its left: a number, a bar group, an
\* operand already followed by '!', or the group a ')' has just closed;
\* '-3!' builds PrefixMinus(Factorial(3)) (-6), '2 + 3! * 3' builds
\* Plus(2, Multiply(Factorial(3), 3)) (20), '(2 + 1)!' builds
\* Factorial(Plus(2, 1)) (6)
C3_FactorialBindsTightest ==
  /\ (Parsing /\ ret.st = "ok") => Peeked.t # "Factorial"
  /\ FactorialNext =>
        (KindOf(Top.lhs) \in {"Number", "Bar", "Factorial"} \/ LastConsumed.t = "Rparen")
  /\ (Succeeded /\ NoBrackets(tokens)) =>
        \A n \in SubNodes(root) :
           n.token.t = "Factorial" =>
              (KindOf(n.left) \in {"Number", "Bar", "Factorial"} /\ n.right = None)
  /\ (phase = "evaluated" /\ text = Text_m3f) =>
        (root = Unary("PrefixMinus", Unary("Factorial", Leaf(3))) /\ value = IntVal(0 - 6))
  /\ (phase = "evaluated" /\ text = Text_2p3fx3) =>
        /\ root = Binary("Plus", Leaf(2), Binary("Multiply", Unary("Factorial", Leaf(3)), Leaf(3)))
        /\ value = IntVal(20)
  /\ (phase = "evaluated" /\ text = Text_g2p1f) =>
        (root = Unary("Factorial", Binary("Plus", Leaf(2), Leaf(1))) /\ value = IntVal(6))

C3_Witness ==
  /\ phase = "evaluated" /\ text = Text_m3f
  /\ root = Unary("PrefixMinus", Unary("Factorial", Leaf(3)))
  /\ value = IntVal(0 - 6)

Text_m1p2 == <<"-", "1", " ", "+", " ", "2">>
Tree_m1p2 == Binary("Plus", Unary("PrefixMinus", Leaf(1)), Leaf(2))

\* the scanned tokens have these kinds, End left out
HasKinds(toks, kinds) ==
  /\ Len(toks) = Len(kinds) + 1
  /\ \A i \in 1..Len(kinds) :
       IF kinds[i] = "infix" THEN infix_binding_power(toks[i].t) # None
       ELSE toks[i].t = kinds[i]

NumberNode(tok) == new_ptr(AstNumber(tok.num), None, None)

\* C4: the operand of a prefix operator is parsed at binding power 5 and is an
\* infix node only when it is a group in brackets; '-a o b' builds
\* o(PrefixMinus(a), b), 'a o -b o2 c' has PrefixMinus(b) as an operand;
\* '-1 + 2' builds Plus(PrefixMinus(1), 2)
C4_PrefixBindsTighterThanInfix ==
  /\ \A i \in 1..(Len(stack) - 1) : stack[i].pc = "prefix" => stack[i + 1].min_bp = 5
  /\ (Parsing /\ ret.st = "ok" /\ Top.pc = "prefix") =>
        (KindOf(ret.node) \in InfixKinds => LastConsumed.t = "Rparen")
  /\ (Succeeded /\ NoBrackets(tokens)) =>
        \A n \in SubNodes(root) :
           n.token.t \in PrefixKinds => (KindOf(n.left) \notin InfixKinds /\ n.right = None)
  /\ (Done /\ HasKinds(tokens, <<"Minus", "Number", "infix", "Number">>)) =>
        root = new_ptr(scanner_token_to_ast_token(tokens[3]),
                       Unary("PrefixMinus", NumberNode(tokens[2])), NumberNode(tokens[4]))
  /\ (Done /\ HasKinds(tokens, <<"Number", "infix", "Minus", "Number", "infix", "Number">>)) =>
        Unary("PrefixMinus", NumberNode(tokens[4]))[1] \in SubNodes(root)
  /\ (Done /\ text = Text_m1p2) => root = Tree_m1p2

C4_Witness ==
  /\ Done /\ HasKinds(tokens, <<"Number", "infix", "Minus", "Number", "infix", "Number">>)
  /\ tokens[2].t = "Multiplication" /\ tokens[5].t = "Multiplication"
  /\ Unary("PrefixMinus", NumberNode(tokens[4]))[1] \in SubNodes(root)

\* the character of e at the byte offset pos ("" when pos is none's offset)
CharAtByte(e, pos) ==
  IF \E i \in 1..Len(e) : ByteOffset(e, i) = pos
  THEN e[CHOOSE i \in 1..Len(e) : ByteOffset(e, i) = pos]
  ELSE ""

\* a step from a state in which a call has returned Err: the caller returns the
\* same Err, and build returns it when no caller is left
ErrGoesToCaller ==
  (phase = "parsing" /\ ret.st = "err") =>
     \/ phase' = "parsing" /\ ret' = ret /\ iter_index' = iter_index
     \/ phase' = "built" /\ result' = BuildErr(ret.err)

\* parse_lhs has the sub-expression of its '(' and is about to read the ')'
AtCloseParen == Parsing /\ ret.st = "ok" /\ Top.pc = "lparen"

CloseParenStep ==
  AtCloseParen =>
     IF Peeked.t = "Rparen"
     THEN /\ Len(stack') = Len(stack)
          /\ stack'[Len(stack)].pc = "loop"
          /\ stack'[Len(stack)].lhs = ret.node
          /\ iter_index' = iter_index + 1
     ELSE /\ ret' = Err(ErrMsg(RParenNotFound, Top.token, NoTok))
          /\ stack' = Pop

\* C5: a '(' starts a sub-expression parsed at binding power 0; with ')' next,
\* parse_lhs has that sub-expression's tree itself as its result; with any
\* other token next, the call returns the error naming the position of its '('
\* (a '(' or '[' of the text), and build returns that error
C5_Parentheses ==
  /\ [](\A i \in 1..Len(stack) :
          stack[i].pc = "lparen" =>
             /\ stack[i].token.t = "Lparen"
             /\ CharAtByte(text, stack[i].token.pos) \in {"(", "["}
             /\ i < Len(stack) =>
                  (stack[i + 1].min_bp = 0 /\ stack[i + 1].prev_token = stack[i].token))
  /\ [][CloseParenStep]_vars
  /\ [][ErrGoesToCaller]_vars
  /\ []((Done /\ result.st = "err" /\ result.err.fmt = RParenNotFound) =>
          CharAtByte(text, result.err.a.pos) \in {"(", "["})

Text_pp1p == <<"(", "(", "1", ")">>

C5_Witness ==
  /\ Done /\ text = Text_pp1p
  /\ result = BuildErr(ErrMsg(RParenNotFound, Token("Lparen", 0), NoTok))

\* parse_lhs has the sub-expression of its '|' and is about to read the closing '|'
AtCloseBar == Parsing /\ ret.st = "ok" /\ Top.pc = "bar"

CloseBarStep ==
  AtCloseBar =>
     IF Peeked.t = "Bar"
     THEN /\ Len(stack') = Len(stack)
          /\ stack'[Len(stack)].pc = "loop"
          /\ stack'[Len(stack)].lhs = new_ptr(AstToken("Bar"), ret.node, None)
          /\ iter_index' = iter_index + 1
     ELSE /\ ret' = Err(ErrMsg(BarNotFound, Top.token, NoTok))
          /\ stack' = Pop

Text_bb1bb == <<"|", "|", "1", "|", "|">>
Text_b1pb2bb == <<"|", "1", " ", "+", " ", "|", "2", "|", "|">>

\* C6: a '|' where an operand is expected starts a sub-expression parsed at
\* binding power 0, which becomes the left child of a Bar node when a '|'
\* follows it and is a parse error otherwise; every Bar node of a built tree
\* spans the tokens from its opening bar to its closing bar, so that the tree
\* is written with exactly the tokens read; '||1||' builds Bar(Bar(1)) and
\* '|1 + |2||' builds Bar(Plus(1, Bar(2)))
C6_Bars ==
  /\ [](\A i \in 1..Len(stack) :
          stack[i].pc = "bar" =>
             /\ stack[i].token.t = "Bar"
             /\ i < Len(stack) =>
                  (stack[i + 1].min_bp = 0 /\ stack[i + 1].prev_token = stack[i].token))
  /\ [][CloseBarStep]_vars
  /\ [](Succeeded =>
          /\ InOrder(root) = Unbracketed(Consumed)
          /\ \A n \in SubNodes(root) :
               n.token.t = "Bar" => (n.left # None /\ n.right = None))
  /\ []((Done /\ text = Text_bb1bb) => root = Unary("Bar", Unary("Bar", Leaf(1))))
  /\ []((Done /\ text = Text_b1pb2bb) =>
          root = Unary("Bar", Binary("Plus", Leaf(1), Unary("Bar", Leaf(2)))))

C6_Witness ==
  /\ Done /\ text = Text_b1pb2bb
  /\ root = Unary("Bar", Binary("Plus", Leaf(1), Unary("Bar", Leaf(2))))

OperatorKinds == {"Plus", "Minus", "Multiplication", "Division", "Modulo", "Factorial"}

\* parse_lhs is about to read its token, and the token is End
OperandExpectedAtEnd ==
  Parsing /\ ret.st = "none" /\ Top.pc = "lhs" /\ Peeked.t = "End"

\* the error of C7 for the token read last
OperandError ==
  IF iter_index = 0 THEN Err(ErrMsg(EmptyExpression, NoTok, NoTok))
  ELSE IF LastConsumed.t \in OperatorKinds
  THEN Err(ErrMsg(OperandExpected, Token(LastConsumed.t, LastConsumed.pos), NoTok))
  ELSE Err(ErrMsg(UnknownError, LastConsumed, Token("End", 0)))

Text_1p2m == <<"1", " ", "+", " ", "2", " ", "-", " ">>

\* C7: when an operand is expected and the next token is End, the call returns
\* an error, which build returns: the operator read last with its position if
\* the token read last is an operator, 'Empty expression!' if no token was
\* read, the generic error with both tokens and their positions otherwise;
\* '1 + 2 - ' reports Minus at position 6
C7_OperandExpected ==
  /\ [][OperandExpectedAtEnd => (ret' = OperandError /\ stack' = Pop)]_vars
  /\ [][ErrGoesToCaller]_vars
  /\ []((Done /\ text = Text_1p2m) =>
          result = BuildErr(ErrMsg(OperandExpected, Token("Minus", 6), NoTok)))
  /\ []((Done /\ text = <<>>) => result = BuildErr(ErrMsg(EmptyExpression, NoTok, NoTok)))

C7_Witness ==
  /\ Done /\ text = Text_1p2m
  /\ result = BuildErr(ErrMsg(OperandExpected, Token("Minus", 6), NoTok))

\* the remainder of the division of a by b (b # 0) that truncates toward zero
TruncRem(a, b) ==
  LET r == Abs(a) % Abs(b) IN IF a < 0 THEN 0 - r ELSE r

RECURSIVE ProductTo(_)
ProductTo(n) == IF n < 2 THEN 1 ELSE n * ProductTo(n - 1)

Known(x) == [ok |-> TRUE, v |-> x]
NotKnown == [ok |-> FALSE, v |-> 0]

\* the arithmetic reading of a tree over the integers: known for a tree of
\* integer leaves without Divide, no remainder by 0, no factorial above 12!
\* and every value within IntCap
RECURSIVE Arithmetic(_)
Arithmetic(ptr) ==
  IF ptr = None THEN NotKnown
  ELSE LET n == ptr[1]
           k == n.token.t
           l == Arithmetic(n.left)
           r == Arithmetic(n.right)
       IN CASE k = "Number" ->
                 IF n.token.num.k = "fin" /\ n.token.num.d = 1
                 THEN Known(n.token.num.n) ELSE NotKnown
            [] k \in {"Plus", "Minus", "Multiply", "Modulo"} ->
                 IF ~(l.ok /\ r.ok) THEN NotKnown
                 ELSE IF k = "Plus" THEN
                      (IF Abs(l.v + r.v) <= IntCap THEN Known(l.v + r.v) ELSE NotKnown)
                 ELSE IF k = "Minus" THEN
                      (IF Abs(l.v - r.v) <= IntCap THEN Known(l.v - r.v) ELSE NotKnown)
                 ELSE IF k = "Multiply" THEN
                      (IF Fits(l.v, r.v) THEN Known(l.v * r.v) ELSE NotKnown)
                 ELSE (IF r.v # 0 THEN Known(TruncRem(l.v, r.v)) ELSE NotKnown)
            [] k = "PrefixMinus" -> IF l.ok THEN Known(0 - l.v) ELSE NotKnown
            [] k = "PrefixPlus" -> l
            [] k = "Bar" -> IF l.ok THEN Known(Abs(l.v)) ELSE NotKnown
            [] k = "Factorial" ->
                 IF l.ok /\ l.v <= 12 THEN Known(ProductTo(l.v)) ELSE NotKnown
            [] OTHER -> NotKnown

\* the f64 v is the integer i (-0.0 is 0)
IsInteger(v, i) == (v.k = "fin" /\ v.d = 1 /\ v.n = i) \/ (v.k = "nz" /\ i = 0)

Text_g5p2r9 == <<"(", "5", " ", "+", " ", "2", ")", " ", "%", " ", "9">>
Text_10m2fp3f == <<"1", "0", " ", "-", " ", "2", "!", " ", "+", " ", "3", "!">>

\* C8: the value of a built tree over integer leaves is the one its arithmetic
\* reading gives: sum, difference, product, remainder, negation, identity,
\* absolute value, and the product 2*3*...*n for Factorial, 1 for n < 2
C8_EvaluationIsArithmetic ==
  /\ (phase = "evaluated" /\ result.st = "ok" /\ Arithmetic(root).ok) =>
        IsInteger(value, Arithmetic(root).v)
  /\ (phase = "evaluated" /\ text = Text_g5p2r9) => value = IntVal(7)
  /\ (phase = "evaluated" /\ text = Text_10m2fp3f) => value = IntVal(14)
  /\ (phase = "evaluated" /\ text \in {<<"0", "!">>, <<"1", "!">>}) => value = IntVal(1)

C8_Witness ==
  /\ phase = "evaluated" /\ text = Text_10m2fp3f
  /\ Arithmetic(root).ok /\ value = IntVal(14)

ScanPanics == {WrongFormatNumber, NotCharBoundary}

\* C9 as stated: scan aborts only on a text with a numeric literal (a text with
\* a numeric character or a '.', which every literal starts with), and a text
\* that is one alphabetic run scans to one identifier token and End
C9_ScanTotalAsStated ==
  /\ phase = "aborted" => \E i \in 1..Len(text) : IsNumeric(text[i]) \/ text[i] = "."
  /\ (phase # "new" /\ text # <<>> /\ \A i \in 1..Len(text) : IsAlphabetic(text[i])) =>
        tokens = <<StrToken(text, 0), Token("End", 0)>>

\* the conversions are given tokens they convert
ConvertibleTokens ==
  \A i \in 1..Len(stack) :
     /\ stack[i].pc = "prefix" => scanner_token_to_prefix_token(stack[i].token) # AstPanic
     /\ stack[i].pc = "infix" =>
          /\ scanner_token_to_ast_token(stack[i].token) # AstPanic
          /\ stack[i].token_type = scanner_token_to_ast_token(stack[i].token)

\* C10: on every scanned sequence the parser goes on until build returns, with
\* Ok and a tree or with Err and a message; no conversion panics
C10_ParsingIsTotal ==
  /\ phase = "aborted" => result.panic \in ScanPanics
  /\ phase = "parsing" => (ENABLED Next /\ result = NoResult)
  /\ ConvertibleTokens
  /\ Done => \/ result = BuildOk /\ root # None
             \/ result.st = "err" /\ result.err.fmt # "" /\ result.panic = NoPanic /\ root = None

C10_Witness ==
  /\ Done /\ text = <<"1", "+", "^", "2">>
  /\ result = BuildErr(ErrMsg(UnknownTokenLhs, Token("Power", 2), NoTok))

\* the cursor stands at the end of the token vector
AtEnd == iter_index >= Len(tokens)

\* a call of next or peek made with the cursor at the end
ReadAtEnd == AtEnd /\ (CallNext \/ CallPeek)

\* every token from the cursor on is an End
OnlyEndsLeft == \A i \in (iter_index + 1)..Len(tokens) : tokens[i].t = "End"

\* C11: the cursor never exceeds the length of the token vector; a call of
\* next or peek made with the cursor at the end returns a token of kind End
\* and leaves the cursor where it was, however many calls came before it, and
\* the cursor stays at the end as long as the token vector is the same; a
\* call made when only End tokens are left (scan called again has pushed
\* more of them) returns a token of kind End; and a call of peek leaves the
\* cursor where it was in every state
C11_EndPastTheEnd ==
  /\ [](iter_index <= Len(tokens))
  /\ [](phase \in {"new", "scanned"} => (ENABLED CallNext /\ ENABLED CallPeek))
  /\ [][ReadAtEnd => (read'.tok = Token("End", 0) /\ iter_index' = iter_index)]_vars
  /\ [][CallPeek => iter_index' = iter_index]_vars
  /\ [][(OnlyEndsLeft /\ (CallNext \/ CallPeek)) => read'.tok = Token("End", 0)]_vars
  /\ [][(AtEnd /\ ScannerCalls /\ tokens' = tokens) => AtEnd']_vars

\* the scanner of '1 +' read to its end, and a peek called there
C11_Witness ==
  /\ text = <<"1", " ", "+", " ">> /\ phase = "scanned"
  /\ Len(tokens) = 3 /\ iter_index = 3
  /\ read = [op |-> "peek", tok |-> Token("End", 0)]

\* the children the kind of a node asks for, and no others
WellFormedNode(n) ==
  CASE n.token.t \in InfixKinds -> n.left # None /\ n.right # None
    [] n.token.t \in PrefixKinds \cup {"Factorial", "Bar"} -> n.left # None /\ n.right = None
    [] n.token.t = "Number" -> n.left = None /\ n.right = None
    [] OTHER -> FALSE

WellFormed(ptr) == ptr # None /\ \A n \in SubNodes(ptr) : WellFormedNode(n)

Text_bm3x1xm1b == <<"|", "-", "3", " ", "*", " ", "1", " ", "*", " ", "-", "1", "|">>

\* C12: when build has succeeded the root is present and every node of the
\* tree has the children of its kind: two for + - * / %, a left one only for
\* the prefix operators, Factorial and Bar, none for a Number; and every Ok a
\* call of parse_expr or parse_lhs returns carries such a tree, the lhs
\* parse_lhs returned to parse_expr included
C12_WellFormedTree ==
  /\ Succeeded => WellFormed(root)
  /\ ret.st = "ok" => WellFormed(ret.node)
  /\ \A i \in 1..Len(stack) : stack[i].pc \in {"loop", "infix"} => WellFormed(stack[i].lhs)

\* '|-3 * 1 * -1|' built: a Bar over two products with both prefix operands
C12_Witness ==
  /\ Succeeded /\ text = Text_bm3x1xm1b
  /\ {n.token.t : n \in SubNodes(root)} = {"Bar", "Multiply", "PrefixMinus", "Number"}
  /\ WellFormed(root)

\* a call has returned Err and its caller has not yet taken it
ErrRaised == phase = "parsing" /\ ret.st = "err"

\* the step of a caller whose callee returned Err: it returns the same Err and
\* reads no token, and when no caller is left build returns the message
ShortCircuit ==
  ErrRaised =>
     /\ iter_index' = iter_index /\ tokens' = tokens /\ root' = root
     /\ \/ phase' = "parsing" /\ ret' = ret /\ stack' = Pop /\ result' = result
        \/ stack = <<>> /\ phase' = "built" /\ result' = BuildErr(ret.err)

Text_3xgm == <<"3", "*", "(", "-">>

\* C13: an Err a call returns goes from caller to caller as it is, up to build,
\* which returns its message; no token is read on the way, nor after build has
\* returned; root is absent while parsing and after an Err, so that the
\* sub-trees the callers held are never stored
C13_ErrorShortCircuit ==
  /\ [][ShortCircuit]_vars
  /\ [][(Done /\ result.st = "err") =>
          (iter_index' = iter_index /\ root' = root /\ result' = result)]_vars
  /\ []((phase = "parsing" \/ (Done /\ result.st = "err")) => root = None)
  /\ []((Done /\ text = Text_3xgm) =>
          result = BuildErr(ErrMsg(OperandExpected, Token("Minus", 3), NoTok)))

\* '3*(-': the Err of the innermost call has reached the outermost call, which
\* holds the tree of 3 as its lhs
C13_Witness ==
  /\ ErrRaised /\ text = Text_3xgm
  /\ ret = Err(ErrMsg(OperandExpected, Token("Minus", 3), NoTok))
  /\ Len(stack) = 1 /\ Top.pc = "infix" /\ Top.lhs = Leaf(3)
  /\ iter_index = Len(tokens) /\ root = None

\* what is left to do of a parse: the tokens not yet read weigh three, the
\* open calls two, a Result not yet taken by the caller one
ParseMeasure ==
  3 * (Len(tokens) - iter_index) + 2 * Len(stack) + (IF ret.st = "none" THEN 0 ELSE 1)

\* a call of parse_expr about to read its first token, or at the head of its loop
AtLhsOrLoop == Parsing /\ ret.st = "none" /\ Top.pc \in {"lhs", "loop"}

\* C14 as stated: while parsing there are at most as many open calls as tokens;
\* every step of the parse leaves less to do; the first step of a call and
\* every iteration of the loop read a token or return; every state before the
\* return of build has a step; and the loops of factorial in the evaluation of
\* a built tree make fewer than IntCap iterations in all
C14_TerminationAsStated ==
  /\ [](phase = "parsing" => Len(stack) <= Len(tokens))
  /\ [][(phase = "parsing" /\ phase' = "parsing") => ParseMeasure' < ParseMeasure]_vars
  /\ [][AtLhsOrLoop => (iter_index' = iter_index + 1 \/ (stack' = Pop /\ ret'.st # "none"))]_vars
  /\ [](phase \in {"scanned", "parsing"} => ENABLED Next)
  /\ [](Succeeded => RecursionIterations(root) < IntCap)

Text_1p == <<"1", " ", ")">>
Text_1b2 == <<"1", " ", "|", " ", "2">>

\* C15 as stated: when build has succeeded the token next to be read is End,
\* so that every token before the End has been read; '1 )' and '1 | 2' are
\* not built
C15_WholeInputAsStated ==
  /\ Succeeded => (Peeked.t = "End" /\ iter_index >= Len(tokens) - 1)
  /\ (Done /\ text \in {Text_1p, Text_1b2}) => result.st = "err"
====
